---- MODULE Spec2Model ----
(***************************************************************************)
(* State-machine model of the summarizer bot: the message store            *)
(* (bot/database.py), the summary generator and dispatcher                 *)
(* (bot/summary.py) and the event handlers that drive them (bot/bot.py).   *)
(***************************************************************************)
EXTENDS Integers, Sequences, FiniteSets, TLC

(***************************************************************************)
(* Python strings.  A str is kept run-length encoded: a sequence of runs   *)
(* <<c, e>>, the character c filling the indices from the end of the run   *)
(* before it up to e (exclusive), so that e of the last run is len(s).     *)
(* Neighbouring runs carry different characters: equal strings have equal  *)
(* encodings, and a 2000-character string stays a short value.  The        *)
(* operators below compute len, +, s[:k], rfind, startswith, strip and     *)
(* join on that encoding, index for index as Python does on the            *)
(* characters.                                                             *)
(***************************************************************************)
\* len(s)
TLen(t) == IF t = <<>> THEN 0 ELSE t[Len(t)][2]

\* c * n
Rep(c, n) == IF n <= 0 THEN <<>> ELSE << <<c, n>> >>

\* a + b
TCat(a, b) ==
    IF a = <<>> THEN b
    ELSE IF b = <<>> THEN a
    ELSE LET n       == TLen(a)
             shifted == [i \in 1..Len(b) |-> <<b[i][1], b[i][2] + n>>]
         IN  IF a[Len(a)][1] = b[1][1]
             THEN SubSeq(a, 1, Len(a) - 1) \o shifted
             ELSE a \o shifted

\* the string of the given characters
RECURSIVE Lit(_)
Lit(chars) ==
    IF chars = <<>> THEN <<>>
    ELSE IF Len(chars) = 1 THEN Rep(chars[1], 1)
    ELSE LET m == Len(chars) \div 2
         IN  TCat(Lit(SubSeq(chars, 1, m)), Lit(SubSeq(chars, m + 1, Len(chars))))

Max(S) == CHOOSE x \in S : \A y \in S : y <= x

Min(S) == CHOOSE x \in S : \A y \in S : x <= y

\* s[:k] for k >= 0
TTake(t, k) ==
    IF k <= 0 THEN <<>>
    ELSE IF k >= TLen(t) THEN t
    ELSE LET i == Min({j \in 1..Len(t) : t[j][2] >= k})
         IN  SubSeq(t, 1, i - 1) \o << <<t[i][1], k>> >>

\* s.rfind(c): the greatest 0-based index holding c, -1 when there is none
TRFind(t, c) ==
    LET holds == {i \in 1..Len(t) : t[i][1] = c}
    IN  IF holds = {} THEN -1 ELSE t[Max(holds)][2] - 1

StartsWith(t, p) == TTake(t, TLen(p)) = p

\* characters str.strip() removes
Whitespace == {" ", "\n", "\t", "\r"}

\* s == "", the test without strip()
IsEmpty(t) == t = <<>>

\* s.strip() == ""
IsBlank(t) == \A i \in 1..Len(t) : t[i][1] \in Whitespace

\* sep.join(parts)
RECURSIVE Join(_, _)
Join(sep, parts) ==
    IF parts = <<>> THEN <<>>
    ELSE IF Len(parts) = 1 THEN parts[1]
    ELSE TCat(TCat(parts[1], sep), Join(sep, Tail(parts)))

\* str(n) for an int n >= 0
Digit(d) == <<"0", "1", "2", "3", "4", "5", "6", "7", "8", "9">>[d + 1]

RECURSIVE Str(_)
Str(n) ==
    IF n < 10 THEN Rep(Digit(n), 1)
    ELSE TCat(Str(n \div 10), Rep(Digit(n % 10), 1))

(***************************************************************************)
(* bot/summary.py: constants and the length guard                          *)
(***************************************************************************)
DISCORD_MESSAGE_LIMIT == 2000

MAX_RETRY_ATTEMPTS == 2

validate_message_length(message) == TLen(message) <= DISCORD_MESSAGE_LIMIT

truncate_message(message) ==
    IF validate_message_length(message) THEN message
    ELSE LET truncated    == TTake(message, DISCORD_MESSAGE_LIMIT)
             last_period  == TRFind(truncated, ".")
             last_newline == TRFind(truncated, "\n")
             last_space   == TRFind(truncated, " ")
             break_points == {pos \in {last_period, last_newline, last_space} : pos > 0}
         IN  IF break_points # {}
             THEN TCat(TTake(message, Max(break_points)), Rep(".", 3))
             ELSE TCat(TTake(message, DISCORD_MESSAGE_LIMIT - 3), Rep(".", 3))

(***************************************************************************)
(* Time.  Instants are whole hours counted from 2024-01-01T00:00 UTC and   *)
(* stay inside January 2024.  datetime.isoformat() is computed to the      *)
(* text Python produces for such an instant (no fractional part, as        *)
(* microsecond is 0); an aware UTC datetime carries the "+00:00" suffix,   *)
(* a naive one does not.                                                   *)
(***************************************************************************)
Pad2(n) == IF n < 10 THEN TCat(Rep("0", 1), Str(n)) ELSE Str(n)

ISO_YEAR_MONTH == Lit(<<"2", "0", "2", "4", "-", "0", "1", "-">>)

ISO_MINUTES_SECONDS == Lit(<<":", "0", "0", ":", "0", "0">>)

ISO_UTC_OFFSET == Lit(<<"+", "0", "0", ":", "0", "0">>)

isoformat(h, aware) ==
    TCat(TCat(TCat(TCat(ISO_YEAR_MONTH, Pad2(1 + h \div 24)),
                   TCat(Rep("T", 1), Pad2(h % 24))),
              ISO_MINUTES_SECONDS),
         IF aware THEN ISO_UTC_OFFSET ELSE <<>>)

\* code points of the characters of an ISO timestamp
Ord(c) ==
    CASE c = "+" -> 43 [] c = "-" -> 45 [] c = "." -> 46
      [] c = "0" -> 48 [] c = "1" -> 49 [] c = "2" -> 50 [] c = "3" -> 51
      [] c = "4" -> 52 [] c = "5" -> 53 [] c = "6" -> 54 [] c = "7" -> 55
      [] c = "8" -> 56 [] c = "9" -> 57 [] c = ":" -> 58 [] c = "T" -> 84

\* SQLite's comparison of two TEXT values (BINARY collation), a >= b, from
\* run i of a and run j of b on, the strings being equal before them
RECURSIVE TextGEFrom(_, _, _, _)
TextGEFrom(a, b, i, j) ==
    IF j > Len(b) THEN TRUE
    ELSE IF i > Len(a) THEN FALSE
    ELSE IF a[i][1] # b[j][1] THEN Ord(a[i][1]) > Ord(b[j][1])
    ELSE IF a[i][2] = b[j][2] THEN TextGEFrom(a, b, i + 1, j + 1)
    ELSE IF a[i][2] < b[j][2] THEN TextGEFrom(a, b, i + 1, j)
    ELSE TextGEFrom(a, b, i, j + 1)

TextGE(a, b) == TextGEFrom(a, b, 1, 1)

(***************************************************************************)
(* bot/database.py: content assembly.  A discord.Message is a record       *)
(*   [id, author: [id, name], channel_id, content, embeds, components,     *)
(*    attachments, created_at]                                             *)
(* an embed [title, description, fields: Seq([name, value]), url, footer], *)
(* a component [content, children, label, value, placeholder] and an       *)
(* attachment [filename, url]; an attribute that is absent or None is the  *)
(* empty string (or the empty sequence), which Python's truth test treats  *)
(* the same way.                                                           *)
(***************************************************************************)
Opt(cond, x) == IF cond THEN <<x>> ELSE <<>>

NL == Rep("\n", 1)

\* "**: ", "Source: ", "Components: ", "Attachment: "
FIELD_SEPARATOR == Lit(<<"*", "*", ":", " ">>)

SOURCE_LABEL == Lit(<<"S", "o", "u", "r", "c", "e", ":", " ">>)

COMPONENTS_LABEL == Lit(<<"C", "o", "m", "p", "o", "n", "e", "n", "t", "s", ":", " ">>)

ATTACHMENT_LABEL == Lit(<<"A", "t", "t", "a", "c", "h", "m", "e", "n", "t", ":", " ">>)

extract_fields(fields) ==
    LET F[i \in 0..Len(fields)] ==
            IF i = 0 THEN <<>>
            ELSE F[i - 1] \o
                 Opt(fields[i].name # <<>> /\ fields[i].value # <<>>,
                     TCat(TCat(TCat(Rep("*", 2), fields[i].name), FIELD_SEPARATOR),
                          fields[i].value))
    IN  F[Len(fields)]

extract_one_embed(embed) ==
    Opt(embed.title # <<>>, TCat(TCat(Rep("*", 2), embed.title), Rep("*", 2)))
      \o Opt(embed.description # <<>>, embed.description)
      \o extract_fields(embed.fields)
      \o Opt(embed.url # <<>>,
             TCat(SOURCE_LABEL, embed.url))
      \o Opt(embed.footer # <<>> /\ (embed.url = <<>> \/ embed.footer # embed.url),
             TCat(TCat(Rep("_", 1), embed.footer), Rep("_", 1)))

extract_embed_content(message) ==
    LET P[i \in 0..Len(message.embeds)] ==
            IF i = 0 THEN <<>> ELSE P[i - 1] \o extract_one_embed(message.embeds[i])
    IN  Join(NL, P[Len(message.embeds)])

RECURSIVE extract_from_component(_)
RECURSIVE extract_from_components(_)
extract_from_components(cs) ==
    IF cs = <<>> THEN <<>>
    ELSE extract_from_component(cs[1]) \o extract_from_components(Tail(cs))

extract_from_component(component) ==
    Opt(component.content # <<>>, component.content)
      \o extract_from_components(component.children)
      \o Opt(component.label # <<>>,
             TCat(TCat(Rep("[", 1), component.label), Rep("]", 1)))
      \o Opt(component.value # <<>>, component.value)
      \o Opt(component.placeholder # <<>>,
             TCat(TCat(Rep("(", 1), component.placeholder), Rep(")", 1)))

extract_component_content(message) ==
    Join(Rep("\n", 2), extract_from_components(message.components))

extract_attachment_content(message) ==
    LET P[i \in 0..Len(message.attachments)] ==
            IF i = 0 THEN <<>>
            ELSE P[i - 1]
                 \o Opt(message.attachments[i].filename # <<>>,
                        TCat(ATTACHMENT_LABEL, message.attachments[i].filename))
                 \o Opt(message.attachments[i].url # <<>>,
                        TCat(TCat(Rep("[", 1), message.attachments[i].url), Rep("]", 1)))
    IN  Join(NL, P[Len(message.attachments)])

assemble_content(message) ==
    Join(Rep("\n", 2),
         Opt(~IsBlank(message.content), message.content)
           \o Opt(extract_embed_content(message) # <<>>, extract_embed_content(message))
           \o Opt(extract_component_content(message) # <<>>,
                  TCat(COMPONENTS_LABEL, extract_component_content(message)))
           \o Opt(extract_attachment_content(message) # <<>>,
                  extract_attachment_content(message)))

Leaf(content) ==
    [content |-> content, children |-> <<>>, label |-> <<>>, value |-> <<>>,
     placeholder |-> <<>>]

\* what a message can carry: plain text; nothing; whitespace only; no text but
\* an embed (its footer repeating the url), a nested component and an attachment
Payloads ==
    {[content |-> Lit(<<"h", "i">>), embeds |-> <<>>, components |-> <<>>,
      attachments |-> <<>>],
     [content |-> <<>>, embeds |-> <<>>, components |-> <<>>, attachments |-> <<>>],
     [content |-> Lit(<<" ", "\n">>), embeds |-> <<>>, components |-> <<>>,
      attachments |-> <<>>],
     [content |-> <<>>,
      embeds |-> <<[title |-> Lit(<<"T">>), description |-> <<>>,
                    fields |-> <<[name |-> Lit(<<"k">>), value |-> Lit(<<"v">>)]>>,
                    url |-> Lit(<<"u">>), footer |-> Lit(<<"u">>)]>>,
      components |-> <<[content |-> <<>>, children |-> <<Leaf(Lit(<<"c">>))>>,
                        label |-> Lit(<<"b">>), value |-> <<>>, placeholder |-> <<>>]>>,
      attachments |-> <<[filename |-> Lit(<<"f">>), url |-> <<>>]>>]}

\* the content store_message assembles for each payload, computed once
combined_content_of == [payload \in Payloads |-> assemble_content(payload)]

\* combined_content of store_message
combined_content(message) ==
    combined_content_of[[content |-> message.content, embeds |-> message.embeds,
                         components |-> message.components,
                         attachments |-> message.attachments]]

(***************************************************************************)
(* bot/database.py: the two tables.  `messages` is the messages table in   *)
(* rowid (insertion) order, each row                                       *)
(*   [message_id, author_id, author_name, content, timestamp, channel_id]; *)
(* `bot_state` is the set of (key, value) rows of the bot_state table.     *)
(***************************************************************************)
message_row(message) ==
    [message_id  |-> Str(message.id),
     author_id   |-> Str(message.author.id),
     author_name |-> message.author.name,
     content     |-> combined_content(message),
     timestamp   |-> isoformat(message.created_at, TRUE),
     channel_id  |-> message.channel_id]

HasId(table, id) == \E i \in 1..Len(table) : table[i].message_id = id

\* what INSERT OR REPLACE would do in place of INSERT OR IGNORE
insert_or_replace(table, row) ==
    [rowcount |-> 1,
     table    |-> SelectSeq(table, LAMBDA r : r.message_id # row.message_id) \o <<row>>]

\* INSERT OR IGNORE INTO messages ...; cursor.rowcount
insert_or_ignore(table, row) ==
    IF HasId(table, row.message_id)
    THEN [rowcount |-> 0, table |-> table]
    ELSE [rowcount |-> 1, table |-> Append(table, row)]

\* store_message: `fault` is an exception raised inside the try block (the
\* connection's context manager then rolls the transaction back)
store_message(table, message, fault) ==
    IF fault THEN [ret |-> FALSE, table |-> table]
    ELSE IF IsBlank(combined_content(message)) THEN [ret |-> FALSE, table |-> table]
    ELSE LET ins == insert_or_ignore(table, message_row(message))
         IN  [ret |-> ins.rowcount > 0, table |-> ins.table]

\* the rows WHERE timestamp >= ?, the parameter being timestamp.isoformat() of
\* the naive local datetime `since`
rows_since(table, since) ==
    SelectSeq(table, LAMBDA r : TextGE(r.timestamp, isoformat(since, FALSE)))

\* ORDER BY timestamp ASC, rows of equal timestamp staying in rowid order
RECURSIVE order_by_timestamp(_)
order_by_timestamp(rows) ==
    IF rows = <<>> THEN <<>>
    ELSE LET rest == order_by_timestamp(Tail(rows))
             r    == rows[1]
             k    == Cardinality({i \in 1..Len(rest) :
                                    ~TextGE(rest[i].timestamp, r.timestamp)})
         IN  SubSeq(rest, 1, k) \o <<r>> \o SubSeq(rest, k + 1, Len(rest))

get_messages_since(table, since, fault) ==
    IF fault THEN <<>> ELSE order_by_timestamp(rows_since(table, since))

\* get_last_processed_id: None is <<>>, a value v is <<v>>
get_last_processed_id(state) ==
    IF \E r \in state : r.key = "last_processed_id"
    THEN <<(CHOOSE r \in state : r.key = "last_processed_id").value>>
    ELSE <<>>

\* what INSERT OR IGNORE would do in place of INSERT OR REPLACE
set_last_processed_id_ignoring(state, message_id, fault) ==
    IF fault THEN [ret |-> FALSE, state |-> state]
    ELSE [ret   |-> TRUE,
          state |-> IF \E r \in state : r.key = "last_processed_id"
                    THEN state
                    ELSE state \cup {[key |-> "last_processed_id", value |-> message_id]}]

\* set_last_processed_id: INSERT OR REPLACE INTO bot_state
set_last_processed_id(state, message_id, fault) ==
    IF fault THEN [ret |-> FALSE, state |-> state]
    ELSE [ret   |-> TRUE,
          state |-> {r \in state : r.key # "last_processed_id"}
                      \cup {[key |-> "last_processed_id", value |-> message_id]}]

\* SELECT author_name, COUNT(*) ... GROUP BY author_name: name -> count
author_counts(table, since) ==
    LET rows  == rows_since(table, since)
        names == {rows[i].author_name : i \in 1..Len(rows)}
    IN  [n \in names |-> Cardinality({i \in 1..Len(rows) : rows[i].author_name = n})]

\* get_message_count_by_user: the dicts the query can give, as sequences of
\* <<author_name, count>> in ORDER BY count DESC order (SQL leaves the order of
\* equal counts open)
get_message_count_by_user(table, since, fault) ==
    IF fault THEN {<<>>}
    ELSE LET c == author_counts(table, since)
             n == Cardinality(DOMAIN c)
         IN  {[i \in 1..n |-> <<f[i], c[f[i]]>>] :
                f \in {g \in [1..n -> DOMAIN c] :
                         /\ \A i, j \in 1..n : i # j => g[i] # g[j]
                         /\ \A i, j \in 1..n : i < j => c[g[i]] >= c[g[j]]}}

\* get_last_processed_id with no except clause around the query
get_last_processed_id_unguarded(state, fault) == get_last_processed_id(state)

\* get_last_processed_id, `fault` an exception raised inside its try block
get_last_processed_id_guarded(state, fault) ==
    IF fault THEN <<>> ELSE get_last_processed_id(state)

(***************************************************************************)
(* bot/summary.py: the texts and the summary generator                     *)
(***************************************************************************)
HEADER_TITLE ==
    Lit(<<"*","*","D","a","i","l","y"," ","C","h","a","n","n","e","l"," ","S","u","m","m",
          "a","r","y","*","*">>)

\* "*Summary period: Last 24 hours*\n"
HEADER_PERIOD ==
    Lit(<<"*","S","u","m","m","a","r","y"," ","p","e","r","i","o","d",":"," ","L","a","s",
          "t"," ","2","4"," ","h","o","u","r","s","*","\n">>)

NO_MESSAGES ==
    Lit(<<"N","o"," ","m","e","s","s","a","g","e","s"," ","t","o"," ","s","u","m","m","a",
          "r","i","z","e"," ","f","r","o","m"," ","t","h","e"," ","l","a","s","t"," ","2",
          "4"," ","h","o","u","r","s",".">>)

FAILED_PREFIX ==
    Lit(<<"F","a","i","l","e","d"," ","t","o"," ","g","e","n","e","r","a","t","e"," ","s",
          "u","m","m","a","r","y",":"," ">>)

ACTIVITY_HEADING ==
    Lit(<<"*","*","M","e","s","s","a","g","e"," ","a","c","t","i","v","i","t","y"," ","b",
          "y"," ","u","s","e","r",":","*","*">>)

\* "\n*This is a placeholder summary. LLM summarization is not currently available.*"
PLACEHOLDER_NOTICE ==
    Lit(<<"\n","*","T","h","i","s"," ","i","s"," ","a"," ","p","l","a","c","e","h","o","l",
          "d","e","r"," ","s","u","m","m","a","r","y","."," ","L","L","M"," ","s","u","m",
          "m","a","r","i","z","a","t","i","o","n"," ","i","s"," ","n","o","t"," ","c","u",
          "r","r","e","n","t","l","y"," ","a","v","a","i","l","a","b","l","e",".","*">>)

\* the three characters the source file holds before " {author_name}"
BULLET == Lit(<<"U+00E2", "U+20AC", "U+00A2">>)

\* llm_client.generate_summary ends in one of two ways: it returns the model's
\* text, or it raises RuntimeError(f"Failed to generate summary: {e}") for the
\* exception e of the call (a timeout, an API error); outcome.text is the
\* returned text or str(e)
llm_error_text(outcome) == TCat(FAILED_PREFIX, outcome.text)

\* generate_llm_summary from the return of the awaited call on
llm_summary_text(outcome) ==
    IF outcome.kind = "text"
    THEN Join(NL, <<HEADER_TITLE, HEADER_PERIOD, outcome.text>>)
    ELSE TCat(FAILED_PREFIX, llm_error_text(outcome))

\* " messages"
MESSAGES_SUFFIX == Lit(<<" ", "m", "e", "s", "s", "a", "g", "e", "s">>)

bullet_line(entry) ==
    TCat(TCat(TCat(TCat(TCat(BULLET, Rep(" ", 1)), entry[1]), TCat(Rep(":", 1), Rep(" ", 1))),
              Str(entry[2])),
         MESSAGES_SUFFIX)

\* the placeholder without its last line
placeholder_without_notice(message_counts) ==
    Join(NL, <<HEADER_TITLE, HEADER_PERIOD, ACTIVITY_HEADING>>
               \o [i \in 1..Len(message_counts) |-> bullet_line(message_counts[i])])

placeholder_summary(message_counts) ==
    Join(NL, <<HEADER_TITLE, HEADER_PERIOD, ACTIVITY_HEADING>>
               \o [i \in 1..Len(message_counts) |-> bullet_line(message_counts[i])]
               \o <<PLACEHOLDER_NOTICE>>)

(***************************************************************************)
(* generate_daily_summary.  Its frame is the record                        *)
(*   [attempt, summary, llmCalls, faultAt, path, result, reads,            *)
(*    connections, countsHidden, windows]                                  *)
(* attempt is the loop index of `for attempt in range(MAX_RETRY_ATTEMPTS)`,*)
(* summary the local variable (<<>> while unbound, <<s>> once assigned),   *)
(* llmCalls the number of llm_client.generate_summary calls made so far,   *)
(* faultAt the value of llmCalls when a call first raised (0: none did),   *)
(* path the return statement taken ("none" before any, "fallback" at the   *)
(* read of line 115) and result the returned string (<<>> until the        *)
(* function returns); reads counts the calls of get_messages_since and     *)
(* get_message_count_by_user made so far and connections the sqlite3       *)
(* connections those calls opened that are open still; countsHidden tells  *)
(* that the read of line 116 raised while the window held rows; windows    *)
(* holds, for each call of llm_client.generate_summary, the message ids   *)
(* of the rows it was given.                                               *)
(***************************************************************************)
NewFrame ==
    [attempt |-> 0, summary |-> <<>>, llmCalls |-> 0, faultAt |-> 0,
     path |-> "none", result |-> <<>>, reads |-> 0, connections |-> 0,
     countsHidden |-> FALSE, windows |-> <<>>]

\* connections that stay with the MessageStore once opened
open_when_kept(opened) == opened

\* `with sqlite3.connect(self.db_path) as conn:` in a function that then
\* returns: how many of the connections it opened are open after the return.
\* Leaving the with block commits or rolls back, and conn, a local nothing
\* else refers to, is closed as the frame of the function goes.
open_after_return(opened) == 0

\* the message ids of the rows a call of llm_client.generate_summary is given
message_ids(window) == {window[i].message_id : i \in 1..Len(window)}

\* a call of get_messages_since or of get_message_count_by_user made and
\* returned
store_read(g) ==
    [g EXCEPT !.reads = @ + 1, !.connections = @ + open_after_return(1)]

Return(g, path, s) == [g EXCEPT !.path = path, !.result = <<s>>]

\* lines 114-137: the placeholder built from what get_message_count_by_user gave
fallback_summary(g, message_counts) ==
    IF message_counts = <<>>
    THEN Return(store_read(g), "no_messages", NO_MESSAGES)
    ELSE Return(store_read(g), "placeholder",
                truncate_message(placeholder_summary(message_counts)))

\* lines 109-112, reached when the loop ends without returning; path "fallback"
\* is the frame at line 115, about to read the per-author counts
after_loop(g) ==
    IF g.summary # <<>> /\ ~validate_message_length(g.summary[1])
    THEN Return(g, "truncated", truncate_message(g.summary[1]))
    ELSE [g EXCEPT !.path = "fallback"]

\* a loop of one attempt more than MAX_RETRY_ATTEMPTS
retry_once_more(attempt) == attempt + 1 < MAX_RETRY_ATTEMPTS + 1

\* whether the loop goes round again after an over-length summary
retry_again(attempt) == attempt + 1 < MAX_RETRY_ATTEMPTS

\* One pass of the loop body.  loop_body runs generate_llm_summary up to its
\* await: with an empty window it returns at once, otherwise the frame is left
\* waiting on llm_client.generate_summary.  loop_check is lines 95-103 from the
\* assignment of `summary` on.
RECURSIVE loop_body(_, _)
RECURSIVE loop_check(_, _, _)
\* a generate_llm_summary that calls the client whatever the window holds
loop_body_calling(g, window) ==
    [store_read(g) EXCEPT !.llmCalls = @ + 1, !.windows = Append(@, message_ids(window))]

loop_body(g, window) ==
    IF window = <<>>
    THEN loop_check(store_read(g), NO_MESSAGES, window)
    ELSE [store_read(g) EXCEPT !.llmCalls = @ + 1,
                               !.windows = Append(@, message_ids(window))]

loop_check(g, summary, window) ==
    LET g1 == [g EXCEPT !.summary = <<summary>>]
    IN  IF validate_message_length(summary) THEN Return(g1, "llm", summary)
        ELSE IF retry_again(g.attempt)
             THEN loop_body([g1 EXCEPT !.attempt = @ + 1], window)
             ELSE after_loop(g1)

\* generate_daily_summary from its call up to its first await, its return or
\* the read of line 115
generate_daily_summary(llm, window) ==
    IF llm THEN loop_body(NewFrame, window)
    ELSE [NewFrame EXCEPT !.path = "fallback"]

(***************************************************************************)
(* send_summary_to_subscriber_channels.  Its frame is the record           *)
(*   [genCalls, idx, results, attempts]                                    *)
(* genCalls counts the calls of generate_daily_summary, idx is the         *)
(* position in subscriber_channel_ids the loop is at, results the dict and *)
(* attempts the calls of _send_to_single_channel made so far, each         *)
(*   [pos, channel, given, text, status]                                   *)
(* list position, channel id, the summary_content argument, the value of   *)
(* validated_content and how far the call got: "not_text" (no send),       *)
(* "sending" (waiting on channel.send), "sent" or "raised".                *)
(***************************************************************************)
NewDispatch ==
    [genCalls |-> 0, idx |-> 0, results |-> <<>>, attempts |-> <<>>]

\* results[k] = v
Put(f, k, v) == [x \in DOMAIN f \cup {k} |-> IF x = k THEN v ELSE f[x]]

\* a loop that gives up the next destination after a failure
record_result_skipping(d, channel, ok) ==
    [d EXCEPT !.results = Put(@, channel, ok), !.idx = IF ok THEN @ + 1 ELSE @ + 2]

\* a loop that calls generate_daily_summary again after a failure
record_result_regenerating(d, channel, ok) ==
    [d EXCEPT !.results = Put(@, channel, ok), !.idx = @ + 1,
              !.genCalls = IF ok THEN @ ELSE @ + 1]

\* what the loop does with the value _send_to_single_channel returned
record_result(d, channel, ok) ==
    [d EXCEPT !.results = Put(@, channel, ok), !.idx = @ + 1]

\* _send_to_single_channel up to its await or its return: `kind` is what
\* bot.get_channel gives (a TextChannel, a channel of another type, or None)
send_to_single_channel(pos, channel, summary_content, validated_content, kind) ==
    [pos |-> pos, channel |-> channel, given |-> summary_content,
     text |-> validated_content,
     status |-> IF kind = "text" THEN "sending" ELSE "not_text"]

\* The loop of lines 146-149 from position d.idx up to the next await.
\* validated_content is _truncate_message(summary_content), which every call
\* of _send_to_single_channel computes anew from the same argument.
RECURSIVE send_loop(_, _, _, _, _)
send_loop(d, channels, summary_content, validated_content, kinds) ==
    IF d.idx > Len(channels) THEN d
    ELSE LET channel == channels[d.idx]
             call == send_to_single_channel(d.idx, channel, summary_content,
                                            validated_content, kinds[channel])
             d1 == [d EXCEPT !.attempts = Append(@, call)]
         IN  IF call.status = "sending" THEN d1
             ELSE send_loop(record_result(d1, channel, FALSE), channels, summary_content,
                            validated_content, kinds)

\* the channel.send call the frame waits on ends: it returned, or it raised
send_ended(d, ok) ==
    LET n == Len(d.attempts)
    IN  record_result([d EXCEPT !.attempts[n].status = IF ok THEN "sent" ELSE "raised"],
                      d.attempts[n].channel, ok)

(***************************************************************************)
(* bot/config.py and bot/bot.py: the schedule.  An aware datetime in the   *)
(* configured zone is the record                                           *)
(*   [day, hour, minute, second, microsecond]                              *)
(* day counted from 2024-01-01, and a datetime.time is the tuple           *)
(* <<hour, minute, second, microsecond>>.  Every datetime of the schedule  *)
(* carries the tzinfo of datetime.now(tz), so Python compares two of them  *)
(* by their fields; the zone keeps one UTC offset over the days modelled.  *)
(***************************************************************************)
\* a < b for two tuples of the same length, compared from the left
TupleLess(a, b) ==
    \E i \in 1..Len(a) : a[i] < b[i] /\ \A j \in 1..(i - 1) : a[j] = b[j]

\* datetime.timetz()
timetz(d) == <<d.hour, d.minute, d.second, d.microsecond>>

\* a < b on two datetimes of one zone
DtLess(a, b) == TupleLess(<<a.day>> \o timetz(a), <<b.day>> \o timetz(b))

\* datetime.combine(date, time)
combine(day, time) ==
    [day |-> day, hour |-> time[1], minute |-> time[2], second |-> time[3],
     microsecond |-> time[4]]

\* d + timedelta(days=n)
plus_days(d, n) == [d EXCEPT !.day = @ + n]

\* datetime.now(tz) in a zone tz hours ahead of UTC, the clock reading hour h
\* and, within the hour, s = <<minute, second, microsecond>>
datetime_now(h, s, tz) ==
    [day |-> (h + tz) \div 24, hour |-> (h + tz) % 24, minute |-> s[1],
     second |-> s[2], microsecond |-> s[3]]

\* now.replace(hour=hour, minute=minute, second=0, microsecond=0), never moved
\* to the next day
get_summary_time_today(time_of_day, current) ==
    [current EXCEPT !.hour = time_of_day[1], !.minute = time_of_day[2],
                    !.second = 0, !.microsecond = 0]

\* Config.get_summary_time: time_of_day is <<hour, minute>> as parsed from
\* bot.summary_time, current is what datetime.now(tz) returns inside it
get_summary_time(time_of_day, current) ==
    LET summary_time_today ==
            [current EXCEPT !.hour = time_of_day[1], !.minute = time_of_day[2],
                            !.second = 0, !.microsecond = 0]
    IN  IF DtLess(summary_time_today, current)
        THEN plus_days(summary_time_today, 1)
        ELSE summary_time_today

\* SummarizerBot._get_task_time
get_task_time(time_of_day, current) == timetz(get_summary_time(time_of_day, current))

\* _setup_initial_task_delay without its else branch (lines 107-109): it never
\* runs the summary itself
setup_initial_task_delay_waiting(scheduled_time, current) ==
    [scheduled_time |-> IF DtLess(scheduled_time, current)
                        THEN plus_days(scheduled_time, 1)
                        ELSE scheduled_time,
     run_now |-> FALSE]

\* _setup_initial_task_delay from the read of the clock on: the scheduled time
\* it settles on and whether it goes on to run the summary at once
setup_initial_task_delay(scheduled_time, current) ==
    LET scheduled == IF DtLess(scheduled_time, current)
                     THEN plus_days(scheduled_time, 1)
                     ELSE scheduled_time
    IN  [scheduled_time |-> scheduled,
         \* delay_seconds > 0 is scheduled > current
         run_now |-> ~DtLess(current, scheduled)]

\* how _run_daily_summary leaves when its body raised, with the except clause
\* taken away
run_daily_summary_propagating(raised) == IF raised THEN "raised" ELSE "completed"

\* how _run_daily_summary leaves: `except Exception` takes whatever its body
\* raised and the function returns None either way
run_daily_summary_exit(raised) == IF raised THEN "caught" ELSE "completed"

\* tasks.loop(time=...): the time a Loop sleeps until, the first occurrence of
\* its time of day at or after current
get_next_sleep_time(time, current) ==
    IF TupleLess(time, timetz(current))
    THEN combine(current.day + 1, time)
    ELSE combine(current.day, time)

(***************************************************************************)
(* Bounds of the model and the values the inputs are drawn from            *)
(***************************************************************************)
MaxMsgId == 2

MaxTicks == 1

MaxSubscribers == 2

MaxDestinations == 3

MsgIds == 1..MaxMsgId

\* config.toml: bot.monitor_channel
monitor_channel == 500

OtherChannel == monitor_channel + 1

\* config.toml: whitelist.users (strings) and the accounts that write
BotUser == [id |-> 10, name |-> Lit(<<"b", "o", "t">>)]

Users ==
    {[id |-> 11, name |-> Lit(<<"a", "n", "n">>)],
     [id |-> 12, name |-> Lit(<<"b", "o", "b">>)],
     [id |-> 13, name |-> Lit(<<"e", "v", "e">>)]}

whitelisted_users == {Str(11), Str(12)}

\* config.toml: bot.subscriber_channels.  The lists of at most n channel ids, up
\* to renaming of the ids (a list names its channels 1, 2, ... in order of first
\* appearance): lists without and with repeated ids
subscriber_lists(n) ==
    UNION {{l \in [1..k -> 1..n] :
              \A i \in 1..k : l[i] <= 1 + Cardinality({l[j] : j \in 1..(i - 1)})} :
           k \in 0..n}

\* what bot.get_channel gives for each configured id: a TextChannel, a channel
\* of another type, or None
channel_kinds(channels) ==
    [{channels[i] : i \in 1..Len(channels)} -> {"text", "other", "none"}]

\* the host's UTC offsets (hours) datetime.now() is taken under
HostOffsets == {0, 12}

\* length of the header generate_llm_summary puts before the model's text
HeaderLen == TLen(Join(NL, <<HEADER_TITLE, HEADER_PERIOD, <<>> >>))

\* texts the model returns: a short one; an over-length one without a break
\* character; over-length ones whose last break character inside the limit is a
\* period well before it, or a space on the limit's last index
LLMReplies ==
    {Lit(<<"o", "k", ".">>),
     Rep("x", DISCORD_MESSAGE_LIMIT),
     TCat(TCat(Rep("x", 100), Rep(".", 1)), Rep("x", DISCORD_MESSAGE_LIMIT)),
     TCat(TCat(Rep("x", DISCORD_MESSAGE_LIMIT - 1 - HeaderLen), Rep(" ", 1)), Rep("x", 100))}

\* str(e) of the exceptions a call raises: a short one and a long response body
LLMErrors == {Lit(<<"t", "i", "m", "e", "d">>), Rep("E", DISCORD_MESSAGE_LIMIT)}

\* the clock of the schedule runs over MaxDays + 1 days
MaxDays == 1

\* the hours of the clock and the positions within an hour it is read at
ClockHours == {48 + 24 * d + h : d \in 0..MaxDays, h \in 0..1}

ClockSubs == {<<0, 0, 0>>, <<0, 0, 1>>, <<0, 1, 0>>, <<59, 59, 0>>, <<59, 59, 999999>>}

Instants == ClockHours \X ClockSubs

InstantLess(a, b) == a[1] < b[1] \/ (a[1] = b[1] /\ TupleLess(a[2], b[2]))

\* instant b is instant a or the one the clock takes next
InstantNext(a, b) ==
    \/ b = a
    \/ /\ InstantLess(a, b)
       /\ \A i \in Instants : ~(InstantLess(a, i) /\ InstantLess(i, b))

\* config: bot.timezone as its UTC offset, bot.summary_time as <<hour, minute>>
Timezones == {0, 2}

SummaryTimes == {<<1, 0>>, <<3, 0>>}

\* the hours the clock of the summary window is read at: the first, and those
\* half a day and a day after it, each with its neighbours
WindowHours == {48 + h : h \in {0, 11, 12, 13, 24, 25}}

\* the strings _truncate_message is called with: `length` characters, all "x"
\* but for the character c at index p and the character d at index q
MarkedText(length, p, c, q, d) ==
    TCat(TCat(TCat(TCat(Rep("x", p), Rep(c, 1)), Rep("x", q - p - 1)), Rep(d, 1)),
         Rep("x", length - q - 1))

TextLengths == {1500, 2000, 2001, 2500}

MarkPositions == {0, 1, 1000, 1800, 1996, 1997, 1998, 1999, 2000, 2200}

MarkCharacters == {".", "\n", " ", "x"}

TruncateInputs ==
    {MarkedText(t[1], t[2], t[3], t[4], t[5]) :
        t \in {u \in TextLengths \X MarkPositions \X MarkCharacters \X MarkPositions
                       \X MarkCharacters : u[2] < u[4] /\ u[4] < u[1]}}

(***************************************************************************)
(* State                                                                   *)
(***************************************************************************)
VARIABLES
    messages,            \* the messages table
    bot_state,           \* the bot_state table
    now,                 \* the clock: hours since 2024-01-01T00:00 UTC
    host_offset,         \* the host's UTC offset, hours
    subscriber_channels, \* config: bot.subscriber_channels
    llm_client,          \* SummaryGenerator.llm_client is not None
    pc,                  \* where the daily run is: idle, llm_wait, send_wait, done
    gen,                 \* frame of generate_daily_summary
    disp,                \* frame of send_summary_to_subscriber_channels
    last_call,           \* the latest store_message call: <<>> or
                         \* <<[ret, existed, grew, same, moved, void, faulted,
                         \*    differs]>>
    last_true,           \* id of the latest message store_message returned True for
    last_written,        \* ... and whose set_last_processed_id returned True
    first_stored,        \* the rows store_message returned True for, as it was
                         \* given them, in call order
    last_read,           \* the latest read of the store by read_store: <<>> or
                         \* <<[what, fault, empty, held]>>
    arrived,             \* a message has reached store_message since the daily
                         \* run in progress began
    sub,                 \* the clock within the hour: <<minute, second, microsecond>>
    timezone,            \* config: bot.timezone, hours ahead of UTC
    summary_time,        \* config: bot.summary_time, <<hour, minute>>
    task_loop,           \* the Loop daily_summary_task:
                         \* [state, time, next_iteration, last_iteration, exit,
                         \*  starts], starts counting the calls of start()
    ready,               \* frame of on_ready: [pc, scheduled_time, read_at,
                         \* started], started telling that it called start()
    last_schedule,       \* the latest get_summary_time call: <<[now, result]>>
    truncation,          \* the latest _truncate_message call: <<>> or
                         \* <<[message, result]>>
    last_inbound         \* the latest message on_message_watched delivered:
                         \* <<>> or <<[by_bot, elsewhere, stranger, kept]>>

vars == <<messages, bot_state, now, host_offset, subscriber_channels, llm_client,
          pc, gen, disp, last_call, last_true, last_written, first_stored, arrived,
          last_read,
          sub, timezone, summary_time, task_loop, ready, last_schedule, truncation, last_inbound>>

store_vars == <<messages, bot_state, last_call, last_true, last_written, first_stored>>

run_vars == <<pc, gen, disp>>

config_vars == <<host_offset, subscriber_channels, llm_client>>

schedule_vars == <<sub, timezone, summary_time, task_loop, ready, last_schedule>>

\* the Loop as _setup_daily_task leaves it: not started, its time taken from the
\* schedule computed at `constructed`
NewLoop(time_of_day, constructed) ==
    [state |-> "stopped", time |-> get_task_time(time_of_day, constructed),
     next_iteration |-> <<>>, last_iteration |-> <<>>, exit |-> "none",
     starts |-> 0]

NoReady == [pc |-> "none", scheduled_time |-> <<>>, read_at |-> <<>>, started |-> FALSE]

Init ==
    /\ messages = <<>>
    /\ bot_state = {}
    /\ now = 48
    /\ host_offset \in HostOffsets
    /\ subscriber_channels \in subscriber_lists(MaxDestinations)
    /\ llm_client \in BOOLEAN
    /\ pc = "idle"
    /\ gen = NewFrame
    /\ disp = NewDispatch
    /\ last_call = <<>>
    /\ last_true = <<>>
    /\ last_written = <<>>
    /\ first_stored = <<>>
    /\ arrived = FALSE
    /\ last_read = <<>>
    /\ sub = <<0, 0, 0>>
    /\ timezone \in Timezones
    /\ summary_time \in SummaryTimes
    /\ task_loop = NewLoop(summary_time, datetime_now(now, sub, timezone))
    /\ ready = NoReady
    /\ truncation = <<>>
    /\ last_inbound = <<>>
    /\ last_schedule =
           <<[now |-> datetime_now(now, sub, timezone),
              result |-> get_summary_time(summary_time, datetime_now(now, sub, timezone))]>>

\* datetime.now() - timedelta(hours=24), a naive datetime in the host's zone
twenty_four_hours_ago == now + host_offset - 24

(***************************************************************************)
(* bot/bot.py: on_message, up to process_commands                          *)
(***************************************************************************)
\* lines 149-170 without the `if`: the watermark moved whatever store_message
\* returned
store_then_mark(table, state, message, store_fault, state_fault) ==
    LET st == store_message(table, message, store_fault)
        w == set_last_processed_id(state, Str(message.id), state_fault)
    IN  [called |-> TRUE, ret |-> st.ret, table |-> st.table, state |-> w.state,
         marked |-> w.ret]

\* lines 149-170: store the message and, if that succeeded, move the watermark
store_and_mark(table, state, message, store_fault, state_fault) ==
    LET st == store_message(table, message, store_fault)
    IN  IF st.ret
        THEN LET w == set_last_processed_id(state, Str(message.id), state_fault)
             IN  [called |-> TRUE, ret |-> TRUE, table |-> st.table, state |-> w.state,
                  marked |-> w.ret]
        ELSE [called |-> TRUE, ret |-> FALSE, table |-> st.table, state |-> state,
              marked |-> FALSE]

\* lines 129-136 without the test of the channel
accepted_anywhere(message) ==
    /\ message.author # BotUser
    /\ Str(message.author.id) \in whitelisted_users

\* lines 129-136: which messages reach store_message
accepted(message) ==
    /\ message.author # BotUser
    /\ message.channel_id = monitor_channel
    /\ Str(message.author.id) \in whitelisted_users

handle_message(table, state, message, store_fault, state_fault) ==
    IF accepted(message)
    THEN store_and_mark(table, state, message, store_fault, state_fault)
    ELSE [called |-> FALSE, ret |-> FALSE, table |-> table, state |-> state,
          marked |-> FALSE]

\* the Message on_message is given
inbound(id, author, channel, payload) ==
    [id |-> id, author |-> author, channel_id |-> channel,
     content |-> payload.content, embeds |-> payload.embeds,
     components |-> payload.components,
     attachments |-> payload.attachments, created_at |-> now]

\* on_message(message), the storage failing as store_fault and state_fault say
on_message_of(message, store_fault, state_fault) ==
    \E h \in {handle_message(messages, bot_state, message, store_fault, state_fault)} :
        /\ messages' = h.table
        /\ bot_state' = h.state
        /\ last_call' = IF h.called
                        THEN <<[ret |-> h.ret,
                                existed |-> HasId(messages, Str(message.id)),
                                grew |-> /\ Len(h.table) = Len(messages) + 1
                                         /\ SubSeq(h.table, 1, Len(messages)) = messages,
                                same |-> h.table = messages,
                                moved |-> h.state # bot_state,
                                \* nothing but spaces and line ends in it
                                void |-> /\ \A i \in 1..Len(message.content) :
                                              message.content[i][1] \in {" ", "\n", "\t", "\r"}
                                         /\ message.embeds = <<>>
                                         /\ message.components = <<>>
                                         /\ message.attachments = <<>>,
                                faulted |-> store_fault,
                                \* the id is stored, with other values
                                differs |-> /\ HasId(messages, Str(message.id))
                                            /\ \A i \in 1..Len(messages) :
                                                  messages[i] # message_row(message)]>>
                        ELSE last_call
        /\ last_true' = IF h.ret THEN <<Str(message.id)>> ELSE last_true
        /\ last_written' = IF h.ret /\ h.marked THEN <<Str(message.id)>> ELSE last_written
        /\ first_stored' = IF h.ret
                           THEN Append(first_stored, message_row(message))
                           ELSE first_stored
        /\ arrived' = (arrived \/ (h.called /\ pc # "idle"))
        /\ UNCHANGED <<now, config_vars, run_vars, schedule_vars, last_read, truncation>>

on_message_in(ids, authors, channels, payloads, faults) ==
    \E id \in ids, author \in authors, channel \in channels, payload \in payloads,
       store_fault \in faults, state_fault \in faults :
        /\ on_message_of(inbound(id, author, channel, payload), store_fault, state_fault)
        /\ UNCHANGED last_inbound

\* a plain text message of any author in any channel, the storage working;
\* last_inbound tells who sent it where, and whether the tables stayed as they were
on_message_watched ==
    \E id \in MsgIds, author \in Users \cup {BotUser},
       channel \in {monitor_channel, OtherChannel},
       payload \in {p \in Payloads : p.content = Lit(<<"h", "i">>)} :
        /\ on_message_of(inbound(id, author, channel, payload), FALSE, FALSE)
        /\ last_inbound' = <<[by_bot    |-> author = BotUser,
                              elsewhere |-> channel # monitor_channel,
                              stranger  |-> Str(author.id) \notin whitelisted_users,
                              kept      |-> /\ messages' = messages
                                            /\ bot_state' = bot_state]>>

\* any message: any author and channel, any payload, with or without storage faults
on_message ==
    on_message_in(MsgIds, Users \cup {BotUser}, {monitor_channel, OtherChannel},
                  Payloads, BOOLEAN)

\* a plain text message of a whitelisted user in the monitored channel, the
\* storage working
on_plain_message ==
    on_message_in(MsgIds, {u \in Users : Str(u.id) \in whitelisted_users},
                  {monitor_channel}, {p \in Payloads : p.content = Lit(<<"h", "i">>)},
                  {FALSE})

\* a plain text message of a whitelisted user in the monitored channel, with or
\* without storage faults
on_plain_message_faults ==
    on_message_in(MsgIds, {u \in Users : Str(u.id) \in whitelisted_users},
                  {monitor_channel}, {p \in Payloads : p.content = Lit(<<"h", "i">>)},
                  BOOLEAN)

\* one of the reads of the store is made: get_messages_since (summary.py line
\* 66), get_message_count_by_user (line 116) or get_last_processed_id (bot.py
\* line 212); held tells whether the tables have something for it to return
read_store ==
    /\ \E fault \in BOOLEAN :
          \/ LET result == get_messages_since(messages, twenty_four_hours_ago, fault)
             IN  last_read' = <<[what |-> "get_messages_since", fault |-> fault,
                                 empty |-> result = <<>>,
                                 held |-> rows_since(messages, twenty_four_hours_ago) # <<>>]>>
          \/ \E result \in get_message_count_by_user(messages, twenty_four_hours_ago, fault) :
                last_read' = <<[what |-> "get_message_count_by_user", fault |-> fault,
                                empty |-> result = <<>>,
                                held |-> rows_since(messages, twenty_four_hours_ago) # <<>>]>>
          \/ LET result == get_last_processed_id_guarded(bot_state, fault)
             IN  last_read' = <<[what |-> "get_last_processed_id", fault |-> fault,
                                 empty |-> result = <<>>,
                                 held |-> get_last_processed_id(bot_state) # <<>>]>>
    /\ UNCHANGED <<store_vars, now, config_vars, run_vars, schedule_vars, arrived,
                   truncation, last_inbound>>

\* time passes
Tick ==
    /\ now < 48 + 24 * MaxTicks
    /\ now' = now + 24
    /\ UNCHANGED <<store_vars, config_vars, run_vars, schedule_vars, arrived, last_read, truncation, last_inbound>>

(***************************************************************************)
(* bot/bot.py and bot/summary.py: the daily run                            *)
(***************************************************************************)
\* the dispatcher from the return of generate_daily_summary on
dispatch(d, g, validated_content, kinds) ==
    IF g.result = <<>> THEN d
    ELSE send_loop(d, subscriber_channels, g.result[1], validated_content, kinds)

\* _truncate_message(summary_content) for the string the frame returned
validated(g) == IF g.result = <<>> THEN <<>> ELSE truncate_message(g.result[1])

PcAfter(d, g) ==
    IF g.result = <<>> THEN "llm_wait"
    ELSE IF d.idx > Len(subscriber_channels) THEN "done" ELSE "send_wait"

\* the frames generate_daily_summary can be in once the read of line 115, if
\* the frame is at it, has given its dict
after_counts(g, read_fault) ==
    IF g.path = "fallback"
    THEN LET hidden == read_fault /\ rows_since(messages, twenty_four_hours_ago) # <<>>
         IN  {fallback_summary([g EXCEPT !.countsHidden = hidden], message_counts) :
                message_counts \in
                  get_message_count_by_user(messages, twenty_four_hours_ago, read_fault)}
    ELSE {g}

\* bot.py lines 185-187 without the test: the run goes on to the dispatcher
\* whatever the list holds
no_subscriber_channels_unchecked(channels) == FALSE

\* bot.py lines 185-187: `if not subscriber_channels: return`
no_subscriber_channels(channels) == channels = <<>>

\* the timer fires: _run_daily_summary up to its first await
daily_summary_task ==
    /\ pc = "idle"
    /\ IF no_subscriber_channels(subscriber_channels)
       THEN /\ pc' = "done"
            /\ gen' = NewFrame
            /\ disp' = NewDispatch
       ELSE \E read_fault \in BOOLEAN :
              LET window == IF llm_client
                            THEN get_messages_since(messages, twenty_four_hours_ago,
                                                    read_fault)
                            ELSE <<>>
              IN  \E g \in after_counts(generate_daily_summary(llm_client, window),
                                        read_fault) :
                    LET validated_content == validated(g)
                    IN  \E kinds \in channel_kinds(subscriber_channels) :
                      LET d == dispatch([NewDispatch EXCEPT !.genCalls = 1, !.idx = 1],
                                        g, validated_content, kinds)
                      IN  /\ gen' = g
                          /\ disp' = d
                          /\ pc' = PcAfter(d, g)
    /\ UNCHANGED <<store_vars, now, config_vars, schedule_vars, arrived, last_read, truncation, last_inbound>>

\* the awaited llm_client.generate_summary call ends with `outcome`; the run
\* goes on to its next await
llm_done(outcome) ==
    /\ pc = "llm_wait"
    /\ LET summary == llm_summary_text(outcome)
           g0 == [gen EXCEPT !.faultAt =
                     IF outcome.kind = "fault" /\ @ = 0 THEN gen.llmCalls ELSE @]
       IN  \E read_fault \in BOOLEAN :
             LET window == get_messages_since(messages, twenty_four_hours_ago, read_fault)
             IN  \E g \in after_counts(loop_check(g0, summary, window), read_fault) :
                   LET validated_content == validated(g)
                   IN  \E kinds \in channel_kinds(subscriber_channels) :
                         LET d == dispatch(disp, g, validated_content, kinds)
                         IN  /\ gen' = g
                             /\ disp' = d
                             /\ pc' = PcAfter(d, g)
    /\ UNCHANGED <<store_vars, now, config_vars, schedule_vars, arrived, last_read, truncation, last_inbound>>

llm_returns == \E text \in LLMReplies : llm_done([kind |-> "text", text |-> text])

llm_raises == \E text \in LLMErrors : llm_done([kind |-> "fault", text |-> text])

\* the awaited channel.send call ends: it returns (the message is out) or raises
send_done(ok) ==
    /\ pc = "send_wait"
    /\ LET validated_content == validated(gen)
           d0 == send_ended(disp, ok)
       IN  \E kinds \in channel_kinds(subscriber_channels) :
             LET d == send_loop(d0, subscriber_channels, gen.result[1], validated_content,
                                kinds)
             IN  /\ disp' = d
                 /\ pc' = PcAfter(d, gen)
    /\ UNCHANGED <<store_vars, now, config_vars, gen, schedule_vars, arrived, last_read, truncation, last_inbound>>

send_returns == send_done(TRUE)

send_raises == send_done(FALSE)

\* _run_daily_summary has returned; the task sleeps until the next day's run
run_returns ==
    /\ pc = "done"
    /\ pc' = "idle"
    /\ gen' = NewFrame
    /\ disp' = NewDispatch
    /\ arrived' = FALSE
    /\ UNCHANGED <<store_vars, now, config_vars, schedule_vars, last_read, truncation, last_inbound>>

(***************************************************************************)
(* bot/bot.py: the schedule.  on_ready runs without giving up control up   *)
(* to the first await of a summary it starts itself; the Loop is the       *)
(* task started by daily_summary_task.start(), which works out its next    *)
(* iteration, sleeps until it, works out the one after and then awaits     *)
(* _run_daily_summary.  Here a summary run is its beginning and its end;   *)
(* what it does in between is daily_summary_task .. run_returns above.     *)
(***************************************************************************)
current_time == datetime_now(now, sub, timezone)

\* time goes by
time_passes ==
    /\ \E instant \in Instants :
          /\ InstantLess(<<now, sub>>, instant)
          /\ now' = instant[1]
          /\ sub' = instant[2]
    /\ UNCHANGED <<store_vars, config_vars, run_vars, timezone, summary_time,
                   task_loop, ready, last_schedule, arrived, last_read, truncation, last_inbound>>

\* a Loop that is never found running
is_running_never(loop) == FALSE

\* Loop.is_running(): the task of the Loop exists and is not done
is_running(loop) == loop.state \notin {"stopped", "failed"}

\* the ready event.  get_summary_time reads the clock, _setup_initial_task_delay
\* reads it again, at second_read: by then it shows the same or has moved on once
on_ready ==
    /\ ready.pc = "none"
    /\ \E second_read \in Instants :
          /\ InstantNext(<<now, sub>>, second_read)
          /\ LET scheduled_time == get_summary_time(summary_time, current_time)
                 read_at == datetime_now(second_read[1], second_read[2], timezone)
                 delay == setup_initial_task_delay(scheduled_time, read_at)
             IN  /\ now' = second_read[1]
                 /\ sub' = second_read[2]
                 \* if not self.daily_summary_task.is_running(): start()
                 /\ task_loop' = IF ~is_running(task_loop)
                                 THEN [task_loop EXCEPT !.state = "started",
                                                        !.starts = @ + 1]
                                 ELSE task_loop
                 /\ last_schedule' = <<[now |-> current_time, result |-> scheduled_time]>>
                 /\ ready' = [pc |-> IF delay.run_now /\ subscriber_channels # <<>>
                                     THEN "running"
                                     ELSE "none",
                              scheduled_time |-> <<delay.scheduled_time>>,
                              read_at |-> <<read_at>>,
                              started |-> ~is_running(task_loop)]
    /\ UNCHANGED <<store_vars, config_vars, run_vars, timezone, summary_time, arrived, last_read, truncation, last_inbound>>

\* the summary on_ready started returns, whatever became of its body
ready_run_ends ==
    /\ ready.pc = "running"
    /\ ready' = [ready EXCEPT !.pc = "none"]
    /\ UNCHANGED <<store_vars, now, config_vars, run_vars, sub, timezone,
                   summary_time, task_loop, last_schedule, arrived, last_read, truncation, last_inbound>>

\* the task of the Loop runs for the first time
loop_begins ==
    /\ task_loop.state = "started"
    /\ task_loop' = [task_loop EXCEPT
                        !.state = "armed",
                        !.next_iteration = <<get_next_sleep_time(task_loop.time, current_time)>>]
    /\ UNCHANGED <<store_vars, now, config_vars, run_vars, sub, timezone,
                   summary_time, ready, last_schedule, arrived, last_read, truncation, last_inbound>>

\* the sleep of the Loop is over: the iteration after this one is worked out,
\* the Loop waiting until it comes out later than this one, and the summary is
\* started
loop_fires ==
    /\ task_loop.state = "armed"
    /\ ~DtLess(current_time, task_loop.next_iteration[1])
    /\ LET next_iteration == get_next_sleep_time(task_loop.time, current_time)
       IN  /\ DtLess(task_loop.next_iteration[1], next_iteration)
           /\ task_loop' = [task_loop EXCEPT
                               !.state = IF subscriber_channels = <<>>
                                         THEN "armed"
                                         ELSE "firing",
                               !.exit = IF subscriber_channels = <<>>
                                        THEN "completed"
                                        ELSE "none",
                               !.last_iteration = task_loop.next_iteration,
                               !.next_iteration = <<next_iteration>>]
    /\ UNCHANGED <<store_vars, now, config_vars, run_vars, sub, timezone,
                   summary_time, ready, last_schedule, arrived, last_read, truncation, last_inbound>>

\* the summary the Loop started leaves; an exception out of it ends the Loop
loop_run_ends ==
    /\ task_loop.state = "firing"
    /\ \E raised \in BOOLEAN :
          LET exit == run_daily_summary_exit(raised)
          IN  task_loop' = [task_loop EXCEPT
                               !.state = IF exit = "raised" THEN "failed" ELSE "armed",
                               !.exit = exit]
    /\ UNCHANGED <<store_vars, now, config_vars, run_vars, sub, timezone,
                   summary_time, ready, last_schedule, arrived, last_read, truncation, last_inbound>>

\* the schedule the specifications of the store and of the run are set in
DefaultSchedule ==
    /\ timezone = 0
    /\ summary_time = <<1, 0>>

\* the daily run with messages arriving while it goes on, the host on UTC
RunInit ==
    /\ Init
    /\ host_offset = 0
    /\ DefaultSchedule
    /\ Len(subscriber_channels) <= MaxSubscribers

Next ==
    \/ on_plain_message
    \/ daily_summary_task
    \/ llm_returns
    \/ llm_raises
    \/ send_returns
    \/ send_raises
    \/ run_returns

Spec == RunInit /\ [][Next]_vars

\* the daily run when every awaited call ends: llm_client.generate_summary
\* returns or raises (the model is built with timeout=30, llm_client.py line
\* 35) and channel.send returns or raises
LiveSpec ==
    /\ RunInit
    /\ [][Next]_vars
    /\ WF_vars(llm_returns \/ llm_raises)
    /\ WF_vars(send_returns \/ send_raises)

\* the store alone, under every kind of inbound message
StoreInit ==
    /\ Init
    /\ host_offset = 0
    /\ DefaultSchedule
    /\ subscriber_channels = <<>>
    /\ llm_client

StoreNext ==
    \/ on_message
    \/ Tick

StoreSpec == StoreInit /\ [][StoreNext]_vars

\* the delivery fan-out alone: daily runs over an empty store, for every list of
\* up to MaxDestinations destinations
FanOutInit ==
    /\ Init
    /\ host_offset = 0
    /\ DefaultSchedule
    /\ ~llm_client

FanOutNext ==
    \/ daily_summary_task
    \/ send_returns
    \/ send_raises
    \/ run_returns

FanOutSpec == FanOutInit /\ [][FanOutNext]_vars

\* the store under faults: plain messages whose writes may fault, and the reads
\* of the store, which may fault as well
FaultInit == StoreInit

FaultNext ==
    \/ on_plain_message_faults
    \/ read_store

FaultSpec == FaultInit /\ [][FaultNext]_vars

\* the schedule alone: ready events, the Loop and the clock, for every
\* configured time and zone, with no destination or with one
ScheduleInit ==
    /\ Init
    /\ host_offset = 0
    /\ llm_client
    /\ Len(subscriber_channels) <= 1

ScheduleNext ==
    \/ time_passes
    \/ on_ready
    \/ ready_run_ends
    \/ loop_begins
    \/ loop_fires
    \/ loop_run_ends

ScheduleSpec == ScheduleInit /\ [][ScheduleNext]_vars

\* hours go by
hours_pass ==
    /\ \E hour \in WindowHours :
          /\ hour > now
          /\ now' = hour
    /\ UNCHANGED <<store_vars, config_vars, run_vars, schedule_vars, arrived, last_read,
                   truncation, last_inbound>>

\* get_last_24h_messages is called, as generate_llm_summary does (summary.py
\* line 66), the storage working: rows is what it returns, `at` the clock and
\* `of` the number of rows of the table at the call
get_last_24h_messages_called ==
    /\ \E result \in {get_messages_since(messages, twenty_four_hours_ago, FALSE)} :
          last_read' = <<[what |-> "get_last_24h_messages", fault |-> FALSE,
                          empty |-> result = <<>>,
                          held |-> rows_since(messages, twenty_four_hours_ago) # <<>>,
                          rows |-> result, at |-> now, of |-> Len(messages)]>>
    /\ UNCHANGED <<store_vars, now, config_vars, run_vars, schedule_vars, arrived,
                   truncation, last_inbound>>

\* the summary window: plain messages stored as the hours go by and the window
\* read, on a host at UTC and on one twelve hours ahead of it
WindowInit ==
    /\ Init
    /\ DefaultSchedule
    /\ subscriber_channels = <<>>
    /\ llm_client

WindowNext ==
    \/ on_plain_message
    \/ hours_pass
    \/ get_last_24h_messages_called

WindowSpec == WindowInit /\ [][WindowNext]_vars

\* on_message alone, for every author and channel, the storage working
IngestInit == StoreInit

IngestNext ==
    \/ on_message_watched
    \/ Tick

IngestSpec == IngestInit /\ [][IngestNext]_vars

\* _truncate_message is called with a string
truncate_message_called ==
    /\ truncation = <<>>
    /\ \E message \in TruncateInputs :
          truncation' = <<[message |-> message, result |-> truncate_message(message)]>>
    /\ UNCHANGED <<store_vars, now, config_vars, run_vars, schedule_vars, arrived,
                   last_read, last_inbound>>

\* the length guard alone, over the strings of TruncateInputs
TruncateInit == StoreInit

TruncateNext == truncate_message_called

TruncateSpec == TruncateInit /\ [][TruncateNext]_vars

(***************************************************************************)
(* Properties                                                              *)
(***************************************************************************)
\* the attempts of the run that ended with channel.send returning
Delivered(d) == {i \in 1..Len(d.attempts) : d.attempts[i].status = "sent"}

\* the attempts of the run in which channel.send was called
Handed(d) == {i \in 1..Len(d.attempts) : d.attempts[i].status # "not_text"}

\* generate_daily_summary returned the summary built from the per-author
\* counts, or the nothing-to-summarize message
FallbackReturned(g) ==
    \/ g.path \in {"placeholder", "no_messages"}
    \/ g.result = <<NO_MESSAGES>>

\* C1: every string generate_daily_summary returns has at most 2000
\* characters, whatever the client did on each attempt and whatever the store
\* holds, truncated results included.
GenerateWithinLimit ==
    gen.result # <<>> => TLen(gen.result[1]) <= 2000

\* C2: every text _send_to_single_channel hands to channel.send has at most
\* 2000 characters, whatever the length of the content it was given.
SendWithinLimit ==
    \A i \in Handed(disp) : TLen(disp.attempts[i].text) <= 2000

\* C3: the messages table never holds two rows with one message_id;
\* store_message returns True exactly when it appended a row, and otherwise
\* leaves the table as it was; for an id already stored it returns False.
IngestIdempotent ==
    /\ \A i, j \in 1..Len(messages) :
         messages[i].message_id = messages[j].message_id => i = j
    /\ last_call # <<>> =>
         /\ last_call[1].ret <=> last_call[1].grew
         /\ ~last_call[1].ret => last_call[1].same
         /\ last_call[1].existed => ~last_call[1].ret

\* C3, reached: store_message was called with an id the table already held and
\* returned False, the table staying as it was.
DuplicateIngested ==
    /\ last_call # <<>>
    /\ last_call[1].existed
    /\ ~last_call[1].ret
    /\ last_call[1].same
    /\ Len(messages) = MaxMsgId

\* C4: once a call of llm_client.generate_summary has raised,
\* generate_daily_summary makes no further call of it and returns the summary
\* built from the per-author counts (or the nothing-to-summarize message), not
\* a text about the fault.
FaultEndsInFallback ==
    (gen.faultAt # 0 /\ gen.result # <<>>) =>
        /\ gen.llmCalls = gen.faultAt
        /\ FallbackReturned(gen)
        /\ ~StartsWith(gen.result[1], FAILED_PREFIX)

\* C5: in a daily run in which a call of llm_client.generate_summary raised, no
\* channel is sent a message carrying the fault text; what is sent is the
\* count-based summary or the nothing-to-summarize message.
NoFaultTextDelivered ==
    gen.faultAt # 0 =>
        \A i \in Delivered(disp) :
            /\ ~StartsWith(disp.attempts[i].text, FAILED_PREFIX)
            /\ FallbackReturned(gen)

\* C6: one invocation of generate_daily_summary calls
\* llm_client.generate_summary at most 2 times; a summary within the limit is
\* returned as it is, at the attempt that produced it, with no call after it;
\* when both attempts are over the limit the second attempt's summary is
\* truncated and returned, without a third call.
AtMostTwoAttempts ==
    /\ gen.llmCalls <= 2
    /\ gen.path = "llm" =>
         /\ gen.result = gen.summary
         /\ validate_message_length(gen.summary[1])
         /\ gen.llmCalls <= gen.attempt + 1
    /\ gen.path = "truncated" =>
         /\ gen.attempt = 1
         /\ gen.llmCalls <= 2
         /\ ~validate_message_length(gen.summary[1])
         /\ gen.result = <<truncate_message(gen.summary[1])>>

\* C6, reached: both attempts called the client, both summaries were over the
\* limit, and the truncated second one was returned.
SecondAttemptTruncated ==
    /\ gen.path = "truncated"
    /\ gen.llmCalls = 2
    /\ gen.faultAt = 0

\* C7: whichever destinations fail (get_channel gives None or a channel that is
\* no TextChannel, or channel.send raises), the run calls
\* _send_to_single_channel for every position of the list, in order, and ends
\* only after the last one; results holds exactly the listed ids, each mapped
\* to True exactly when its own send returned (for an id listed more than
\* once, the send of its last position).
DestinationsIsolated ==
    /\ \A i \in 1..Len(disp.attempts) :
         /\ disp.attempts[i].pos = i
         /\ disp.attempts[i].channel = subscriber_channels[i]
    /\ pc = "done" =>
         /\ Len(disp.attempts) = Len(subscriber_channels)
         /\ DOMAIN disp.results = {subscriber_channels[i] : i \in 1..Len(subscriber_channels)}
         /\ \A i \in 1..Len(disp.attempts) :
              (\A j \in (i + 1)..Len(disp.attempts) :
                    disp.attempts[j].channel # disp.attempts[i].channel)
                => (disp.results[disp.attempts[i].channel] <=> i \in Delivered(disp))

\* C7, reached: three destinations, the second of which does not resolve to a
\* TextChannel; the run ends with {d1: True, d2: False, d3: True}.
SecondOfThreeFails ==
    /\ pc = "done"
    /\ subscriber_channels = <<1, 2, 3>>
    /\ disp.attempts[2].status = "not_text"
    /\ disp.results = [d \in {1, 2, 3} |-> d # 2]

\* C8 as stated: a daily run, once over, has called generate_daily_summary
\* exactly once, and every destination was given what that call returned.
EveryRunGeneratesOnce ==
    pc = "done" =>
        /\ disp.genCalls = 1
        /\ \A i \in 1..Len(disp.attempts) : <<disp.attempts[i].given>> = gen.result

\* C8, amended: a daily run with at least one configured destination calls
\* generate_daily_summary exactly once, and a run with none does not call it;
\* no _send_to_single_channel call is made before generate_daily_summary has
\* returned; every call is given the string it returned, also after a failed
\* delivery.
OneGenerationPerDelivery ==
    /\ disp.genCalls = IF pc = "idle" \/ subscriber_channels = <<>> THEN 0 ELSE 1
    /\ pc = "llm_wait" => disp.attempts = <<>>
    /\ disp.attempts # <<>> => gen.result # <<>>
    /\ \A i \in 1..Len(disp.attempts) : <<disp.attempts[i].given>> = gen.result

\* C8, reached: the summary came from the client, the first destination failed
\* and the second was then sent the same content, generated once.
DeliveredAfterFailure ==
    /\ pc = "done"
    /\ gen.llmCalls >= 1
    /\ disp.genCalls = 1
    /\ Len(disp.attempts) = 2
    /\ 1 \notin Delivered(disp)
    /\ 2 \in Delivered(disp)

\* C9: when a daily run is over, each destination results maps to True was
\* sent exactly one message and each destination it maps to False none, for
\* lists with and without repeated ids.
OneMessagePerSuccess ==
    pc = "done" =>
        \A c \in DOMAIN disp.results :
            Cardinality({i \in Delivered(disp) : disp.attempts[i].channel = c})
              = IF disp.results[c] THEN 1 ELSE 0

\* C10 as stated: the value of last_processed_id is the id of the latest
\* message store_message returned True for.
WatermarkIsLastStored ==
    get_last_processed_id(bot_state) = last_true

\* C10, amended: the value of last_processed_id is the id of the latest message
\* for which store_message returned True and set_last_processed_id then
\* returned True (call order, not id order); a message store_message returns
\* False for, and one whose set_last_processed_id fails, leave it unchanged.
WatermarkIsLastMarked ==
    /\ get_last_processed_id(bot_state) = last_written
    /\ (last_call # <<>> /\ ~last_call[1].ret) => ~last_call[1].moved

\* C10, reached: id 2 was stored before id 1, so last_processed_id is "1"; a
\* later store_message returned False and left it there.
WatermarkFollowsCallOrder ==
    /\ Len(messages) = 2
    /\ messages[1].message_id = Str(2)
    /\ messages[2].message_id = Str(1)
    /\ get_last_processed_id(bot_state) = <<Str(1)>>
    /\ last_call # <<>>
    /\ ~last_call[1].ret

\* C11: store_message called with a message whose text is empty or only
\* whitespace and which has no embeds, components or attachments returns
\* False; the messages table and last_processed_id stay as they were.
EmptyMessageRejected ==
    (last_call # <<>> /\ last_call[1].void)
      => /\ ~last_call[1].ret
         /\ last_call[1].same
         /\ ~last_call[1].moved

\* C11, reached: with a row stored and last_processed_id set, a message with
\* no text, or only whitespace for text, and nothing else was handed to
\* store_message, which did not fault, and was refused.
WhitespaceMessageRefused ==
    /\ last_call # <<>>
    /\ last_call[1].void
    /\ ~last_call[1].faulted
    /\ ~last_call[1].existed
    /\ ~last_call[1].ret
    /\ Len(messages) >= 1
    /\ get_last_processed_id(bot_state) # <<>>

\* C12: get_summary_time, called when the time of day in the configured zone
\* is earlier than bot.summary_time, returns that time on the same day; called
\* when it is later, it returns that time on the day after.
FireTimeTodayOrTomorrow ==
    last_schedule # <<>> =>
        LET call == last_schedule[1]
            at == <<summary_time[1], summary_time[2], 0, 0>>
        IN  /\ TupleLess(timetz(call.now), at) => call.result = combine(call.now.day, at)
            /\ TupleLess(at, timetz(call.now)) => call.result = combine(call.now.day + 1, at)

\* C12, reached: get_summary_time was called one second after the configured
\* time and answered with the day after.
CalledOneSecondAfter ==
    /\ last_schedule # <<>>
    /\ timetz(last_schedule[1].now) = <<summary_time[1], summary_time[2], 1, 0>>
    /\ last_schedule[1].result.day = last_schedule[1].now.day + 1

\* C13: whatever the clock reads, get_summary_time returns a datetime strictly
\* later than the one it read; read exactly at the configured time, it returns
\* that time on the day after.
FireTimeStrictlyLater ==
    last_schedule # <<>> => DtLess(last_schedule[1].now, last_schedule[1].result)

\* C14: once started the Loop is armed or firing and stays so: every fire
\* leaves it armed for the next occurrence of its time of day (the day after
\* the fired one when it fires on that day), and the return of the summary,
\* whether its body raised or not, leaves it armed for that same iteration.
RearmedAfterEveryFire ==
    [][/\ task_loop.state \in {"armed", "firing"}
            => task_loop'.state \in {"armed", "firing"}
       /\ task_loop'.last_iteration # task_loop.last_iteration
            => LET fired == task_loop'.last_iteration[1]
                   next == task_loop'.next_iteration[1]
               IN  /\ fired = task_loop.next_iteration[1]
                   /\ timetz(next) = task_loop.time
                   /\ DtLess(fired, next)
                   /\ ~DtLess(next, current_time)
                   /\ next.day <= current_time.day + 1
                   /\ current_time.day = fired.day => next = plus_days(fired, 1)
       /\ (task_loop.state = "firing" /\ task_loop' # task_loop)
            => /\ task_loop'.state = "armed"
               /\ task_loop'.next_iteration = task_loop.next_iteration
               /\ task_loop'.last_iteration = task_loop.last_iteration
      ]_vars

\* C14, reached: the summary the Loop started raised inside, and the Loop is
\* armed for the day after the iteration it fired.
ArmedAfterFailedRun ==
    /\ task_loop.state = "armed"
    /\ task_loop.exit = "caught"
    /\ task_loop.next_iteration = <<plus_days(task_loop.last_iteration[1], 1)>>

\* C15: no summary run is started, by the Loop or by on_ready, while another
\* one is in progress.
AtMostOneRun == ~(task_loop.state = "firing" /\ ready.pc = "running")

FaultsAnsweredEmpty ==
    /\ (last_call # <<>> /\ last_call[1].faulted)
          => /\ ~last_call[1].ret
             /\ last_call[1].same
             /\ ~last_call[1].moved
    /\ (last_read # <<>> /\ last_read[1].fault) => last_read[1].empty

\* C18, reached: with a row stored and last_processed_id set, the latest
\* store_message faulted, and so did a get_last_processed_id, which returned
\* None though a value was there.
FaultedWriteAndRead ==
    /\ Len(messages) >= 1
    /\ last_call # <<>>
    /\ last_call[1].faulted
    /\ ~last_call[1].existed
    /\ last_read # <<>>
    /\ last_read[1].what = "get_last_processed_id"
    /\ last_read[1].fault
    /\ last_read[1].held
    /\ last_read[1].empty

\* the step on which a daily run calls generate_daily_summary
GenerateCalled == pc = "idle" /\ pc' # "idle" /\ subscriber_channels # <<>>

\* C19: generate_daily_summary called when the table has no row of the last
\* 24 hours returns "No messages to summarize from the last 24 hours." and
\* never calls llm_client.generate_summary, with llm_client set or None.
NothingToSummarize ==
    [][(GenerateCalled /\ rows_since(messages, twenty_four_hours_ago) = <<>>)
          => /\ gen'.result = <<NO_MESSAGES>>
             /\ gen'.llmCalls = 0
      ]_vars

\* C19, reached: llm_client is set, the table is empty, and the run is sending
\* the nothing-to-summarize text, one read of the window and no call made.
NothingToSummarizeWithClient ==
    /\ llm_client
    /\ messages = <<>>
    /\ pc = "send_wait"
    /\ gen.result = <<NO_MESSAGES>>
    /\ gen.llmCalls = 0
    /\ gen.reads = 1

\* C20: generate_daily_summary called with llm_client None while the table has
\* rows of the last 24 hours makes no call of a client and returns the
\* placeholder: title, period line, heading, one bullet line per author with
\* its count, closing notice.
FallbackFromCounts ==
    [][(GenerateCalled /\ ~llm_client /\ rows_since(messages, twenty_four_hours_ago) # <<>>)
          => /\ gen'.llmCalls = 0
             /\ \E counts \in get_message_count_by_user(messages, twenty_four_hours_ago, FALSE) :
                   /\ \A n \in DOMAIN author_counts(messages, twenty_four_hours_ago) :
                         \E i \in 1..Len(counts) :
                            counts[i] = <<n, author_counts(messages, twenty_four_hours_ago)[n]>>
                   /\ gen'.result =
                        <<TCat(Join(NL, <<HEADER_TITLE, HEADER_PERIOD, ACTIVITY_HEADING>>),
                               TCat(TCat(NL, Join(NL, [i \in 1..Len(counts) |->
                                                         bullet_line(counts[i])])),
                                    TCat(NL, PLACEHOLDER_NOTICE)))>>
      ]_vars

\* C20, amended: generate_daily_summary called with llm_client None while the
\* table has rows of the last 24 hours makes no call of a client; it returns
\* the placeholder unless the read of the counts raised, and then, with {} from
\* get_message_count_by_user, "No messages to summarize from the last 24 hours.".
FallbackFromCountsRead ==
    [][(GenerateCalled /\ ~llm_client /\ rows_since(messages, twenty_four_hours_ago) # <<>>)
          => /\ gen'.llmCalls = 0
             /\ IF gen'.countsHidden
                THEN gen'.result = <<NO_MESSAGES>>
                ELSE \E counts \in get_message_count_by_user(messages, twenty_four_hours_ago,
                                                             FALSE) :
                        /\ \A n \in DOMAIN author_counts(messages, twenty_four_hours_ago) :
                              \E i \in 1..Len(counts) :
                                 counts[i] = <<n, author_counts(messages, twenty_four_hours_ago)[n]>>
                        /\ gen'.result =
                             <<TCat(Join(NL, <<HEADER_TITLE, HEADER_PERIOD, ACTIVITY_HEADING>>),
                                    TCat(TCat(NL, Join(NL, [i \in 1..Len(counts) |->
                                                              bullet_line(counts[i])])),
                                         TCat(NL, PLACEHOLDER_NOTICE)))>>
      ]_vars

\* C20, reached: llm_client is None, two authors have a row each, and the run
\* is sending the placeholder, no call made.
PlaceholderOfTwoAuthors ==
    /\ ~llm_client
    /\ Len(messages) = 2
    /\ messages[1].author_name # messages[2].author_name
    /\ pc = "send_wait"
    /\ gen.path = "placeholder"
    /\ ~gen.countsHidden
    /\ gen.llmCalls = 0
    /\ ~arrived

\* C21: with no subscriber channel configured a daily run ends, without an
\* exception, without having entered the dispatcher: no summary was generated,
\* no send was attempted and no channel has an outcome.
NoDestinationsNothingSent ==
    (subscriber_channels = <<>> /\ pc # "idle")
        => /\ pc = "done"
           /\ disp.genCalls = 0
           /\ disp.attempts = <<>>
           /\ DOMAIN disp.results = {}
           /\ gen = NewFrame

\* C21, reached: a daily run over an empty subscriber list has returned
RunWithoutDestinationsDone ==
    /\ subscriber_channels = <<>>
    /\ pc = "done"

\* the greatest index below `limit` at which t holds a period, a newline or a
\* space; -1 when it holds none there
LastBreakBefore(t, limit) ==
    LET first(j) == IF j = 1 THEN 0 ELSE t[j - 1][2]
        held == {j \in 1..Len(t) : t[j][1] \in {".", "\n", " "} /\ first(j) < limit}
    IN  IF held = {} THEN -1
        ELSE Max({Min({t[j][2], limit}) - 1 : j \in held})

\* the string cut after its first `at` characters, the ellipsis marker after it
CutAt(message, at) == TCat(TTake(message, at), Lit(<<".", ".", ".">>))

\* C22 as stated: truncating an over-limit text whose first 2000 characters
\* hold a period, newline or space returns the text up to the greatest index
\* of one, then the ellipsis marker; with none it returns the first 1997
\* characters and the marker.
TruncatesAtAnyBreak ==
    \A k \in 1..Len(truncation) :
        LET message == truncation[k].message
            at == LastBreakBefore(message, DISCORD_MESSAGE_LIMIT)
        IN  TLen(message) > DISCORD_MESSAGE_LIMIT
                => truncation[k].result =
                       IF at >= 0 THEN CutAt(message, at)
                       ELSE CutAt(message, DISCORD_MESSAGE_LIMIT - 3)

\* C22, what _truncate_message does: a break character counts only at an
\* index above 0 (`if pos > 0`).  An over-limit text is cut at the greatest
\* such index within its first 2000 characters, or after 1997 characters when
\* there is none, and the ellipsis marker follows; a 2500-character text whose
\* last break character inside the limit is a period at index 1800 is cut at
\* 1800, to 1803 characters.
TruncatesAtLastBreak ==
    \A k \in 1..Len(truncation) :
        LET message == truncation[k].message
            result == truncation[k].result
            at == LastBreakBefore(message, DISCORD_MESSAGE_LIMIT)
        IN  /\ TLen(message) > DISCORD_MESSAGE_LIMIT
                => result = IF at > 0 THEN CutAt(message, at)
                            ELSE CutAt(message, DISCORD_MESSAGE_LIMIT - 3)
            /\ (TLen(message) = 2500 /\ at = 1800)
                => /\ TLen(result) = 1803
                   /\ TLen(result) <= DISCORD_MESSAGE_LIMIT
                   /\ TTake(result, 1800) = TTake(message, 1800)

\* C22, the example reached: a 2500-character text whose last break character inside the
\* limit is a period at index 1800 has been truncated
PeriodAt1800Truncated ==
    /\ truncation # <<>>
    /\ TLen(truncation[1].message) = 2500
    /\ LastBreakBefore(truncation[1].message, DISCORD_MESSAGE_LIMIT) = 1800
    /\ TRFind(TTake(truncation[1].message, DISCORD_MESSAGE_LIMIT), ".") = 1800
    /\ TLen(truncation[1].result) = 1803

\* the hour (UTC) a stored timestamp names
InstantOf(timestamp) == CHOOSE h \in WindowHours : isoformat(h, TRUE) = timestamp

\* C23: whatever the host's UTC offset, the window get_last_24h_messages
\* hands to the summary holds exactly the stored messages whose timestamp, as
\* an instant, is at or after now minus 24 hours, in ascending order of
\* timestamp.
WindowIsLastDay ==
    \A k \in 1..Len(last_read) :
        last_read[k].what = "get_last_24h_messages"
            => LET rows == last_read[k].rows
                   table == SubSeq(messages, 1, last_read[k].of)
               IN  /\ {rows[i] : i \in 1..Len(rows)} =
                          {table[i] : i \in {j \in 1..Len(table) :
                              InstantOf(table[j].timestamp) >= last_read[k].at - 24}}
                   /\ \A i \in 1..(Len(rows) - 1) :
                          InstantOf(rows[i].timestamp) <= InstantOf(rows[i + 1].timestamp)

\* C24: after any sequence of inbound messages, with repeated ids, other
\* contents, authors and timestamps and with storage faults among them, every
\* row store_message once wrote is in the messages table still, at its place
\* and with the values of the call that wrote it.
StoredRowsKept ==
    /\ Len(first_stored) <= Len(messages)
    /\ \A k \in 1..Len(first_stored) : messages[k] = first_stored[k]

\* C24, reached: a message came in under a stored id with other values, a day
\* after the first one, and the storage took the call without a fault
StoredIdIngestedAgain ==
    /\ last_call # <<>>
    /\ last_call[1].differs
    /\ ~last_call[1].faulted
    /\ ~last_call[1].void
    /\ now > 48
    /\ \E i \in 1..Len(messages) : messages[i].timestamp = isoformat(48, TRUE)

\* C25: the ready event that starts the Loop runs the summary at once when
\* the delay it computes (scheduled time minus the clock it read) is not
\* positive and starts no run when it is positive; either way the Loop is
\* started and stays running, and its first fire comes no earlier than the
\* scheduled time that ready event computed, every fire no earlier than the
\* iteration it stands for.
StartupRunsOrWaits ==
    [][/\ (task_loop.state = "stopped" /\ task_loop'.state = "started")
            => LET due == ~DtLess(ready'.read_at[1], ready'.scheduled_time[1])
               IN  /\ ready'.started
                   /\ (due /\ subscriber_channels # <<>>) => ready'.pc = "running"
                   /\ ~due => ready'.pc = "none"
       /\ ready'.read_at # <<>> => task_loop'.state \in {"started", "armed", "firing"}
       /\ task_loop'.last_iteration # task_loop.last_iteration
            => /\ ~DtLess(current_time, task_loop'.last_iteration[1])
               /\ (task_loop.last_iteration = <<>> /\ ready.started)
                     => ~DtLess(task_loop'.last_iteration[1], ready.scheduled_time[1])
      ]_vars

\* C25, reached: the ready event that started the Loop read the clock at the
\* scheduled time exactly, its delay was 0 and its summary run is under way
StartedAtTheBoundary ==
    /\ ready.started
    /\ ready.pc = "running"
    /\ ready.scheduled_time = ready.read_at
    /\ task_loop.state = "started"

\* every subscriber channel has its outcome in the dict of the run
EveryChannelAnswered(d) ==
    DOMAIN d.results = {subscriber_channels[i] : i \in 1..Len(subscriber_channels)}

\* C26, the part about ending: when every awaited call ends, a daily run that
\* began ends, with an outcome for every subscriber channel.
RunCompletes ==
    (pc # "idle") ~> (pc = "done" /\ EveryChannelAnswered(disp))

\* C26: when every awaited call ends, a daily run that began ends with an
\* outcome for every subscriber channel, and a call of
\* llm_client.generate_summary that raised, a timeout being one way, sends
\* generate_daily_summary down its fallback path.
RunCompletesByFallback ==
    /\ RunCompletes
    /\ [](gen.faultAt # 0 /\ gen.result # <<>> => gen.path \in {"placeholder", "no_messages"})

\* C27: within one invocation of generate_daily_summary every call of
\* llm_client.generate_summary is given the same rows, the retry after an
\* over-length result included, also when messages were stored while the
\* first call was awaited.
SameWindowEveryAttempt ==
    \A i, j \in 1..Len(gen.windows) : gen.windows[i] = gen.windows[j]

\* C28: in every reachable state last_processed_id is unset or is the message_id
\* of a row of the messages table.
WatermarkInLog ==
    \/ get_last_processed_id(bot_state) = <<>>
    \/ HasId(messages, get_last_processed_id(bot_state)[1])

\* C28, reached: store_message failed for id 2 after id 1 was stored and marked;
\* last_processed_id is "1" and its row is there.
WatermarkSetAfterFault ==
    /\ get_last_processed_id(bot_state) = <<Str(1)>>
    /\ HasId(messages, Str(1))
    /\ ~HasId(messages, Str(2))
    /\ last_call # <<>>
    /\ last_call[1].faulted
    /\ ~last_call[1].ret

\* C29: every row of the messages table is of the monitored channel and of a
\* whitelisted author who is not the bot, and a message of another channel, of
\* an author not whitelisted or of the bot leaves both tables as they were.
OnlyAcceptedStored ==
    /\ \A i \in 1..Len(messages) :
          /\ messages[i].channel_id = monitor_channel
          /\ messages[i].author_id \in whitelisted_users
          /\ messages[i].author_id # Str(BotUser.id)
    /\ \A k \in 1..Len(last_inbound) :
          (last_inbound[k].by_bot \/ last_inbound[k].elsewhere \/ last_inbound[k].stranger)
              => last_inbound[k].kept

\* C29, reached: a whitelisted author's message of another channel came after
\* one was stored and marked, and changed nothing.
OtherChannelIgnored ==
    /\ messages # <<>>
    /\ get_last_processed_id(bot_state) # <<>>
    /\ last_inbound # <<>>
    /\ last_inbound[1].elsewhere
    /\ ~last_inbound[1].stranger
    /\ ~last_inbound[1].by_bot
    /\ last_inbound[1].kept

\* C30: however many times on_ready runs, daily_summary_task.start() is called
\* at most once, and so no second Loop is ever set going.
LoopStartedOnce ==
    /\ task_loop.starts <= 1
    /\ task_loop.state = "stopped" <=> task_loop.starts = 0

\* C30, reached: on_ready ran again while the Loop was armed and did not call
\* start().
ReadyAgainWhileArmed ==
    /\ task_loop.state = "armed"
    /\ task_loop.starts = 1
    /\ ready.read_at # <<>>
    /\ ~ready.started

====
